---- MODULE Spec2Model ----
(***************************************************************************)
(* Model of add_availability_rule (src/bokun_api_manager.py), the          *)
(* read-normalize-append-write handler that adds a single-date             *)
(* availability rule to a Bokun experience.                                *)
(*                                                                         *)
(* JSON values are tagged records [t |-> <type>, v |-> <value>]; a JSON    *)
(* object (Python dict) is a function from its keys to tagged values, so   *)
(* an absent key is a key outside the DOMAIN.                              *)
(***************************************************************************)
EXTENDS Integers, Sequences, FiniteSets, TLC

VARIABLES
    remoteRules,    \* availabilityRules collection held by the remote service
    remoteBT,       \* bookingType the remote puts in the component ("absent" tag when omitted)
    initRules,      \* the collection before any request (history)
    pc,             \* per client: "idle", "fetched" (GET done, PUT pending), "done"
    data,           \* per client: request.json of its POST
    existing,       \* per client: get_resp.json() of its GET
    put_payload,    \* per client: body of its PUT
    resp,           \* per client: the JSON response and HTTP status it returned
    log,            \* upstream calls in the order the remote served them
    norm_pc,        \* normalization harness: "off", "raw", "once", "twice", "raised"
    norm_rule,      \* normalization harness: the fetched rule
    norm_bt,        \* normalization harness: api_booking_type
    norm_once,      \* normalization harness: cleaned_rule(norm_rule)
    norm_twice      \* normalization harness: cleaned_rule(norm_once)

mainVars == <<remoteRules, remoteBT, initRules, pc, data, existing, put_payload, resp, log>>
normVars == <<norm_pc, norm_rule, norm_bt, norm_once, norm_twice>>
vars == <<remoteRules, remoteBT, initRules, pc, data, existing, put_payload, resp, log,
          norm_pc, norm_rule, norm_bt, norm_once, norm_twice>>

(***************************************************************************)
(* Bounds                                                                  *)
(***************************************************************************)
MaxRules == 2        \* longest initial remote collection
MaxTimes == 2        \* longest startTimes list of a fetched rule (harness)

Clients == {1, 2}    \* concurrent web requests

(***************************************************************************)
(* JSON / Python values                                                    *)
(***************************************************************************)
Null == [t |-> "null"]
PyInt(n) == [t |-> "int", v |-> n]
PyBool(b) == [t |-> "bool", v |-> b]
PyStr(s) == [t |-> "str", v |-> s]
PyList(s) == [t |-> "list", v |-> s]
PyDict(d) == [t |-> "dict", v |-> d]

\* marker used only to enumerate inputs: the key is not in the dict
Absent == [t |-> "absent"]

EmptyDict == <<>>

\* a dict holding key k unless v is the Absent marker
Opt(k, v) == IF v = Absent THEN EmptyDict ELSE k :> v

\* dict.get(k, default)
Get(d, k, default) == IF k \in DOMAIN d THEN d[k] ELSE default

\* Python truth value of a JSON value
Truthy(v) ==
    CASE v.t = "null" -> FALSE
      [] v.t = "bool" -> v.v
      [] v.t = "int"  -> v.v # 0
      [] v.t = "str"  -> v.v # ""
      [] v.t = "list" -> Len(v.v) > 0
      [] v.t = "dict" -> DOMAIN v.v # {}

\* `x < 1` is defined for numbers (bool is an int subtype); anything else raises TypeError
Comparable(v) == v.t \in {"int", "bool"}

LessThanOne(v) == IF v.t = "bool" THEN ~v.v ELSE v.v < 1

DefaultCapacity == 12
DefaultMinTotalPax == 1

DATE_ONLY == PyStr("DATE_ONLY")
DATE_AND_TIME == PyStr("DATE_AND_TIME")

(***************************************************************************)
(* Step 2: the new rule                                                    *)
(***************************************************************************)
\* variant: the window is left open-ended
recurrence_rule_no_end(date) == [startDate |-> date]

\* weekdays = [] and months = [] are falsy, so no byWeekday/byMonth key is added
recurrence_rule(date) == [startDate |-> date, endDate |-> date]

\* variant: explicit start times are attached but the rule still says "all start times"
new_rule_start_times_both(api_booking_type, start_time_ids) ==
    IF api_booking_type = DATE_AND_TIME
    THEN IF Truthy(start_time_ids) /\ Len(start_time_ids.v) > 0
         THEN [allStartTimes |-> PyBool(TRUE),
               startTimes |-> PyList([i \in 1..Len(start_time_ids.v) |->
                                         PyDict([id |-> start_time_ids.v[i]])])]
         ELSE [allStartTimes |-> PyBool(TRUE)]
    ELSE EmptyDict

\* variant: the "all start times" branch is taken whatever the booking type
new_rule_start_times_always(api_booking_type, start_time_ids) ==
    IF api_booking_type = DATE_AND_TIME /\ Truthy(start_time_ids) /\ Len(start_time_ids.v) > 0
    THEN [allStartTimes |-> PyBool(FALSE),
          startTimes |-> PyList([i \in 1..Len(start_time_ids.v) |->
                                    PyDict([id |-> start_time_ids.v[i]])])]
    ELSE [allStartTimes |-> PyBool(TRUE)]

\* start_time_ids is a (possibly empty) list of ids
new_rule_start_times(api_booking_type, start_time_ids) ==
    IF api_booking_type = DATE_AND_TIME
    THEN IF Truthy(start_time_ids) /\ Len(start_time_ids.v) > 0
         THEN [allStartTimes |-> PyBool(FALSE),
               startTimes |-> PyList([i \in 1..Len(start_time_ids.v) |->
                                         PyDict([id |-> start_time_ids.v[i]])])]
         ELSE [allStartTimes |-> PyBool(TRUE)]
    ELSE EmptyDict

\* booking_type and all_start_times are read from the request (lines 168, 170)
new_rule(date, capacity, booking_type, all_start_times, api_booking_type, start_time_ids) ==
    [recurrenceRule       |-> PyDict(recurrence_rule(date)),
     maxCapacity          |-> capacity,
     maxCapacityForPickup |-> capacity,
     minTotalPax          |-> PyInt(1),
     guidedLanguages      |-> PyList(<<>>)]
    @@ new_rule_start_times(api_booking_type, start_time_ids)

(***************************************************************************)
(* Step 3: cleaning an existing rule                                       *)
(***************************************************************************)
\* rule_copy['recurrenceRule'] / rule_copy['maxCapacity'] raise KeyError,
\* and the `< 1` comparison raises TypeError on a non-number
normalize_raises(rule) ==
    \/ "recurrenceRule" \notin DOMAIN rule
    \/ "maxCapacity" \notin DOMAIN rule
    \/ ~Comparable(Get(rule, "maxCapacityForPickup", Get(rule, "maxCapacity", PyInt(DefaultCapacity))))

\* variant: only a negative pickup capacity is replaced
pickup_capacity_negative_only(rule) ==
    LET fetched == Get(rule, "maxCapacityForPickup", Get(rule, "maxCapacity", PyInt(DefaultCapacity)))
    IN  IF fetched.t = "int" /\ fetched.v < 0 THEN rule["maxCapacity"] ELSE fetched

pickup_capacity(rule) ==
    LET fetched == Get(rule, "maxCapacityForPickup", Get(rule, "maxCapacity", PyInt(DefaultCapacity)))
    IN  IF LessThanOne(fetched) THEN rule["maxCapacity"] ELSE fetched

\* variant: any entry with an id key is kept, falsy ids included
valid_start_time_any_id(st) == st.t = "dict" /\ "id" \in DOMAIN st.v

valid_start_time(st) == st.t = "dict" /\ "id" \in DOMAIN st.v /\ Truthy(st.v["id"])

cleaned_times(startTimes) ==
    LET kept == SelectSeq(startTimes, valid_start_time)
    IN  [i \in 1..Len(kept) |-> PyDict([id |-> kept[i].v["id"]])]

\* variant: the kept start times are sent while the rule still says "all start times"
clean_start_times_both(rule, api_booking_type) ==
    IF api_booking_type = DATE_AND_TIME
    THEN LET st == Get(rule, "startTimes", Null)
         IN  IF Truthy(st) /\ st.t = "list" /\ Len(st.v) > 0
             THEN [startTimes |-> PyList(cleaned_times(st.v)),
                   allStartTimes |-> PyBool(Len(cleaned_times(st.v)) = 0)]
             ELSE [allStartTimes |-> PyBool(TRUE)]
    ELSE EmptyDict

clean_start_times(rule, api_booking_type) ==
    IF api_booking_type = DATE_AND_TIME
    THEN LET st == Get(rule, "startTimes", Null)
         IN  IF Truthy(st) /\ st.t = "list" /\ Len(st.v) > 0
             THEN IF Len(cleaned_times(st.v)) > 0
                  THEN [startTimes |-> PyList(cleaned_times(st.v)),
                        allStartTimes |-> PyBool(FALSE)]
                  ELSE [allStartTimes |-> PyBool(TRUE)]
             ELSE [allStartTimes |-> PyBool(TRUE)]
    ELSE EmptyDict

\* variant: the id is read with .get, so a rule without id is sent with id null
copy_id_always(rule) == [id |-> Get(rule, "id", Null)]

copy_id(rule) == IF "id" \in DOMAIN rule THEN [id |-> rule["id"]] ELSE EmptyDict

\* defined when ~normalize_raises(rule)
cleaned_rule(rule, api_booking_type) ==
    [recurrenceRule       |-> rule["recurrenceRule"],
     maxCapacity          |-> rule["maxCapacity"],
     maxCapacityForPickup |-> pickup_capacity(rule),
     minTotalPax          |-> Get(rule, "minTotalPax", PyInt(DefaultMinTotalPax)),
     guidedLanguages      |-> Get(rule, "guidedLanguages", PyList(<<>>))]
    @@ copy_id(rule)
    @@ clean_start_times(rule, api_booking_type)

clean_existing(rules, api_booking_type) ==
    [i \in 1..Len(rules) |-> cleaned_rule(rules[i], api_booking_type)]

any_raises(rules) == \E i \in 1..Len(rules) : normalize_raises(rules[i])

\* variant: the cleaned rules are not concatenated
updated_rules_new_only(clean, new) == <<new>>

\* variant: the new rule is put in front of the cleaned rules
updated_rules_prepend(clean, new) == <<new>> \o clean

updated_rules(clean, new) == clean \o <<new>>

(***************************************************************************)
(* Inputs                                                                  *)
(***************************************************************************)
SeqsUpTo(S, n) == UNION {[1..k -> S] : k \in 0..n}

RR(d) == PyDict([startDate |-> PyStr(d), endDate |-> PyStr(d)])

StartTimeEntries ==
    {PyDict([id |-> PyInt(501), hour |-> PyInt(9)]),
     PyDict([id |-> PyInt(502)]),
     PyDict([id |-> PyInt(0)]),
     PyDict([hour |-> PyInt(9)]),
     PyInt(7)}

StartTimesValues ==
    {Absent, Null, PyStr("09:00")} \cup {PyList(s) : s \in SeqsUpTo(StartTimeEntries, MaxTimes)}

\* the other optional keys of a fetched rule, together present or together absent
Extras ==
    {EmptyDict,
     [minTotalPax |-> PyInt(2), guidedLanguages |-> PyList(<<PyStr("en")>>),
      allStartTimes |-> PyBool(TRUE), externalId |-> PyStr("ext-1")]}

RawRules ==
    {Opt("recurrenceRule", rr) @@ Opt("maxCapacity", mc) @@ Opt("maxCapacityForPickup", mp)
       @@ Opt("id", id) @@ Opt("startTimes", st) @@ ex :
         rr \in {Absent, RR("2025-05-01")},
         mc \in {Absent, Null, PyInt(0), PyInt(5)},
         mp \in {Absent, Null, PyInt(-1), PyInt(0), PyInt(1), PyInt(3)},
         id \in {Absent, PyInt(77)},
         st \in StartTimesValues,
         ex \in Extras}

BookingTypes == {DATE_ONLY, DATE_AND_TIME}

(***************************************************************************)
(* Normalization harness: one fetched rule cleaned once, then again        *)
(***************************************************************************)
NormIdle ==
    /\ norm_pc = "off"
    /\ norm_rule = EmptyDict
    /\ norm_bt = DATE_ONLY
    /\ norm_once = EmptyDict
    /\ norm_twice = EmptyDict

MainIdle ==
    /\ remoteRules = <<>>
    /\ remoteBT = Absent
    /\ initRules = <<>>
    /\ pc = [c \in Clients |-> "done"]
    /\ data = [c \in Clients |-> EmptyDict]
    /\ existing = [c \in Clients |-> EmptyDict]
    /\ put_payload = [c \in Clients |-> EmptyDict]
    /\ resp = [c \in Clients |-> EmptyDict]
    /\ log = <<>>

InitNorm ==
    /\ MainIdle
    /\ norm_pc = "raw"
    /\ norm_rule \in RawRules
    /\ norm_bt \in BookingTypes
    /\ norm_once = EmptyDict
    /\ norm_twice = EmptyDict

NormalizeRaises ==
    /\ norm_pc = "raw"
    /\ normalize_raises(norm_rule)
    /\ norm_pc' = "raised"
    /\ UNCHANGED <<norm_rule, norm_bt, norm_once, norm_twice>>
    /\ UNCHANGED mainVars

NormalizeOnce ==
    /\ norm_pc = "raw"
    /\ ~normalize_raises(norm_rule)
    /\ norm_once' = cleaned_rule(norm_rule, norm_bt)
    /\ norm_pc' = "once"
    /\ UNCHANGED <<norm_rule, norm_bt, norm_twice>>
    /\ UNCHANGED mainVars

NormalizeTwice ==
    /\ norm_pc = "once"
    /\ ~normalize_raises(norm_once)
    /\ norm_twice' = cleaned_rule(norm_once, norm_bt)
    /\ norm_pc' = "twice"
    /\ UNCHANGED <<norm_rule, norm_bt, norm_once>>
    /\ UNCHANGED mainVars

NextNorm == NormalizeRaises \/ NormalizeOnce \/ NormalizeTwice

SpecNorm == InitNorm /\ [][NextNorm]_vars

(***************************************************************************)
(* The handler and the remote service                                      *)
(***************************************************************************)
Statuses == {200, 404, 500}

\* response.text of an upstream answer
ResponseText(status) == IF status = 200 THEN "ok" ELSE "upstream error"

\* the AVAILABILITY_RULES component the remote returns on GET
component(rules, bt) == Opt("bookingType", bt) @@ [availabilityRules |-> rules]

existing_rules(existing_) == Get(existing_, "availabilityRules", <<>>)

api_booking_type(existing_) == Get(existing_, "bookingType", DATE_ONLY)

\* variant: only a server error aborts
get_failed_only_500(status) == status = 500

get_failed(status) == status # 200

\* variant: only a server error counts as a failed write
put_succeeded_lenient(status) == status # 500

put_succeeded(status) == status = 200

\* variant: the booking type sent by the caller drives the start-time handling
build_put_payload_caller_type(data_, existing_) ==
    [availabilityRules |->
        updated_rules(
            clean_existing(existing_rules(existing_), Get(data_, "booking_type", DATE_ONLY)),
            new_rule(data_["date"],
                     Get(data_, "capacity", PyInt(DefaultCapacity)),
                     Get(data_, "booking_type", DATE_ONLY),
                     Get(data_, "all_start_times", PyBool(TRUE)),
                     Get(data_, "booking_type", DATE_ONLY),
                     Get(data_, "start_time_ids", PyList(<<>>))))]

build_put_payload(data_, existing_) ==
    [availabilityRules |->
        updated_rules(
            clean_existing(existing_rules(existing_), api_booking_type(existing_)),
            new_rule(data_["date"],
                     Get(data_, "capacity", PyInt(DefaultCapacity)),
                     Get(data_, "booking_type", DATE_ONLY),
                     Get(data_, "all_start_times", PyBool(TRUE)),
                     api_booking_type(existing_),
                     Get(data_, "start_time_ids", PyList(<<>>))))]

Dates == {PyStr("2025-06-01"), PyStr("2025-06-02")}

Capacities == {Absent, PyInt(0)}

StartTimeIdLists == {PyList(<<>>), PyList(<<PyInt(501), PyInt(502)>>)}

\* what the page sends: its (possibly stale) booking type and the all-start-times flag
CallerModes == BookingTypes \X {PyBool(TRUE), PyBool(FALSE)}

Requests ==
    {Opt("capacity", cap) @@
     [date |-> d, booking_type |-> m[1], all_start_times |-> m[2], start_time_ids |-> ids] :
        cap \in Capacities, d \in Dates, m \in CallerModes, ids \in StartTimeIdLists}

RemoteRuleSet ==
    {[id |-> PyInt(77), recurrenceRule |-> RR("2025-05-01"), maxCapacity |-> PyInt(5),
      maxCapacityForPickup |-> PyInt(0), externalId |-> PyStr("ext-1"),
      startTimes |-> PyList(<<PyDict([id |-> PyInt(501), hour |-> PyInt(9)]),
                              PyDict([id |-> PyInt(0)])>>)],
     [recurrenceRule |-> RR("2025-05-02"), maxCapacity |-> PyInt(0),
      maxCapacityForPickup |-> PyInt(0), allStartTimes |-> PyBool(TRUE),
      startTimes |-> PyList(<<PyDict([id |-> PyInt(0)]), PyDict([hour |-> PyInt(9)])>>)],
     [id |-> PyInt(78), recurrenceRule |-> RR("2025-05-03"),
      startTimes |-> PyList(<<PyDict([id |-> PyInt(502)])>>)],
     [id |-> PyInt(79), recurrenceRule |-> RR("2025-05-04"), maxCapacity |-> PyInt(5),
      maxCapacityForPickup |-> Null]}

Init ==
    /\ NormIdle
    /\ remoteRules \in SeqsUpTo(RemoteRuleSet, MaxRules)
    /\ remoteBT \in {Absent} \cup BookingTypes
    /\ initRules = remoteRules
    /\ pc = [c \in Clients |-> "idle"]
    /\ data = [c \in Clients |-> EmptyDict]
    /\ existing = [c \in Clients |-> EmptyDict]
    /\ put_payload = [c \in Clients |-> EmptyDict]
    /\ resp = [c \in Clients |-> EmptyDict]
    /\ log = <<>>

\* the handler's locals do not outlive its response
Discard(c) ==
    /\ data' = [data EXCEPT ![c] = EmptyDict]
    /\ existing' = [existing EXCEPT ![c] = EmptyDict]
    /\ put_payload' = [put_payload EXCEPT ![c] = EmptyDict]

\* the GET answers non-200: respond 400 without going further
FetchFailed(c) ==
    \E status \in Statuses :
        /\ pc[c] = "idle"
        /\ get_failed(status)
        /\ log' = Append(log, [op |-> "GET", c |-> c, status |-> status])
        /\ resp' = [resp EXCEPT ![c] =
                      [success |-> FALSE,
                       error |-> <<"Could not fetch existing rules: ", status, " ",
                                   ResponseText(status)>>,
                       http |-> 400]]
        /\ pc' = [pc EXCEPT ![c] = "done"]
        /\ UNCHANGED <<remoteRules, remoteBT, initRules, data, existing, put_payload>>
        /\ UNCHANGED normVars

\* variant: the exception is swallowed and the rules cleaned so far are written
FetchedRaises_partial(c) ==
    \E d \in Requests, status \in Statuses :
        /\ pc[c] = "idle"
        /\ ~get_failed(status)
        /\ any_raises(existing_rules(component(remoteRules, remoteBT)))
        /\ LET first == CHOOSE i \in 1..Len(remoteRules) :
                            /\ normalize_raises(remoteRules[i])
                            /\ \A j \in 1..(i - 1) : ~normalize_raises(remoteRules[j])
           IN  put_payload' = [put_payload EXCEPT ![c] =
                   [availabilityRules |->
                       clean_existing(SubSeq(remoteRules, 1, first - 1),
                                      api_booking_type(component(remoteRules, remoteBT)))]]
        /\ data' = [data EXCEPT ![c] = d]
        /\ existing' = [existing EXCEPT ![c] = component(remoteRules, remoteBT)]
        /\ log' = Append(log, [op |-> "GET", c |-> c, status |-> status])
        /\ pc' = [pc EXCEPT ![c] = "fetched"]
        /\ UNCHANGED <<remoteRules, remoteBT, initRules, resp>>
        /\ UNCHANGED normVars

\* the GET succeeds but cleaning a fetched rule raises: the except clause responds 500
FetchedRaises(c) ==
    \E status \in Statuses :
        /\ pc[c] = "idle"
        /\ ~get_failed(status)
        /\ any_raises(existing_rules(component(remoteRules, remoteBT)))
        /\ log' = Append(log, [op |-> "GET", c |-> c, status |-> status])
        /\ resp' = [resp EXCEPT ![c] = [success |-> FALSE, error |-> "exception", http |-> 500]]
        /\ pc' = [pc EXCEPT ![c] = "done"]
        /\ UNCHANGED <<remoteRules, remoteBT, initRules, data, existing, put_payload>>
        /\ UNCHANGED normVars

\* the GET succeeds and the payload is built; the PUT is the next upstream call
Fetched(c) ==
    \E d \in Requests, status \in Statuses :
        /\ pc[c] = "idle"
        /\ ~get_failed(status)
        /\ ~any_raises(existing_rules(component(remoteRules, remoteBT)))
        /\ data' = [data EXCEPT ![c] = d]
        /\ existing' = [existing EXCEPT ![c] = component(remoteRules, remoteBT)]
        /\ put_payload' = [put_payload EXCEPT ![c] =
                             build_put_payload(d, component(remoteRules, remoteBT))]
        /\ log' = Append(log, [op |-> "GET", c |-> c, status |-> status])
        /\ pc' = [pc EXCEPT ![c] = "fetched"]
        /\ UNCHANGED <<remoteRules, remoteBT, initRules, resp>>
        /\ UNCHANGED normVars

\* the remote replaces the whole collection and returns what it saved
PutSucceeded(c) ==
    \E status \in Statuses :
        /\ pc[c] = "fetched"
        /\ put_succeeded(status)
        /\ remoteRules' = put_payload[c]["availabilityRules"]
        /\ log' = Append(log, [op |-> "PUT", c |-> c, status |-> status])
        /\ resp' = [resp EXCEPT ![c] =
                      [success |-> TRUE,
                       message |-> <<"Availability rule added! Total rules: ",
                                     Len(put_payload[c]["availabilityRules"])>>,
                       rules |-> put_payload[c]["availabilityRules"],
                       http |-> 200]]
        /\ pc' = [pc EXCEPT ![c] = "done"]
        /\ Discard(c)
        /\ UNCHANGED <<remoteBT, initRules>>
        /\ UNCHANGED normVars

\* variant: a rejected PUT is sent again instead of being reported
PutFailed_retry(c) ==
    \E status \in Statuses :
        /\ pc[c] = "fetched"
        /\ ~put_succeeded(status)
        /\ log' = Append(log, [op |-> "PUT", c |-> c, status |-> status])
        /\ UNCHANGED <<remoteRules, remoteBT, initRules, pc, data, existing, put_payload, resp>>
        /\ UNCHANGED normVars

\* the remote rejects the PUT and keeps its collection
PutFailed(c) ==
    \E status \in Statuses :
        /\ pc[c] = "fetched"
        /\ ~put_succeeded(status)
        /\ log' = Append(log, [op |-> "PUT", c |-> c, status |-> status])
        /\ resp' = [resp EXCEPT ![c] =
                      [success |-> FALSE,
                       error |-> <<status, ": ", ResponseText(status)>>,
                       http |-> 400]]
        /\ pc' = [pc EXCEPT ![c] = "done"]
        /\ Discard(c)
        /\ UNCHANGED <<remoteRules, remoteBT, initRules>>
        /\ UNCHANGED normVars

Next ==
    \E c \in Clients :
        \/ FetchFailed(c)
        \/ FetchedRaises(c)
        \/ Fetched(c)
        \/ PutSucceeded(c)
        \/ PutFailed(c)

Spec == Init /\ [][Next]_vars

(***************************************************************************)
(* Properties                                                              *)
(***************************************************************************)
Range(seq) == {seq[i] : i \in 1..Len(seq)}

Last(seq) == seq[Len(seq)]

\* the rules of client c's pending PUT, and the rule it is adding
PayloadRules(c) == put_payload[c]["availabilityRules"]

NewRuleOf(c) == Last(PayloadRules(c))

FetchedType(c) == IF "bookingType" \in DOMAIN existing[c] THEN existing[c]["bookingType"] ELSE DATE_ONLY

SuppliedIds(c) == data[c]["start_time_ids"].v

FailedGets(c) == {i \in 1..Len(log) : log[i].op = "GET" /\ log[i].c = c /\ log[i].status # 200}

PutsOf(c) == {i \in 1..Len(log) : log[i].op = "PUT" /\ log[i].c = c}

GoodPuts == {i \in 1..Len(log) : log[i].op = "PUT" /\ log[i].status = 200}

\* C1: a request whose GET answered non-200 issues no PUT and has responded
\* success=false with the fetch-failure text carrying the upstream status; the
\* remote collection is the initial one as long as no PUT succeeded.
C1_FetchFailureShortCircuits ==
    /\ \A c \in Clients : \A i \in FailedGets(c) :
          /\ PutsOf(c) = {}
          /\ pc[c] = "done"
          /\ resp[c]["success"] = FALSE
          /\ resp[c]["error"][1] = "Could not fetch existing rules: "
          /\ resp[c]["error"][2] = log[i].status
          /\ put_payload[c] = EmptyDict
    /\ (GoodPuts = {} => remoteRules = initRules)

C1_Witness ==
    \E c \in Clients :
        /\ FailedGets(c) # {}
        /\ pc[c] = "done"
        /\ resp[c]["error"][2] = 500
        /\ Len(remoteRules) = 2
        /\ remoteRules = initRules

\* C2: the PUT payload built from N fetched rules has N+1 rules, and the last
\* one's recurrenceRule has exactly startDate and endDate, both the requested date.
C2_PayloadIsExistingPlusOne ==
    \A c \in Clients : pc[c] = "fetched" =>
        /\ Len(PayloadRules(c)) = Len(existing[c]["availabilityRules"]) + 1
        /\ NewRuleOf(c)["recurrenceRule"].t = "dict"
        /\ DOMAIN NewRuleOf(c)["recurrenceRule"].v = {"startDate", "endDate"}
        /\ NewRuleOf(c)["recurrenceRule"].v["startDate"] = data[c]["date"]
        /\ NewRuleOf(c)["recurrenceRule"].v["endDate"] = data[c]["date"]

C2_Witness ==
    \E c \in Clients :
        /\ pc[c] = "fetched"
        /\ Len(existing[c]["availabilityRules"]) = 2
        /\ Len(PayloadRules(c)) = 3
        /\ data[c]["date"] = PyStr("2025-06-02")
        /\ NewRuleOf(c)["recurrenceRule"].v["endDate"] = PyStr("2025-06-02")

\* the log of the interleaving GET a, GET b, PUT a, PUT b with every call answered 200
LostUpdateRun(a, b) ==
    log = <<[op |-> "GET", c |-> a, status |-> 200], [op |-> "GET", c |-> b, status |-> 200],
            [op |-> "PUT", c |-> a, status |-> 200], [op |-> "PUT", c |-> b, status |-> 200]>>

\* C3: after GET a, GET b, PUT a, PUT b (all 200) both requests reported success,
\* yet the remote holds the second writer's payload only: one rule more than
\* initially, and without the first writer's new rule when the two differ.
C3_LostUpdate ==
    \A a, b \in Clients : (a # b /\ LostUpdateRun(a, b)) =>
        /\ resp[a]["success"] = TRUE
        /\ resp[b]["success"] = TRUE
        /\ remoteRules = resp[b]["rules"]
        /\ Len(remoteRules) = Len(initRules) + 1
        /\ (Last(resp[a]["rules"]) # Last(resp[b]["rules"])
               => Last(resp[a]["rules"]) \notin Range(remoteRules))

C3_Witness ==
    \E a, b \in Clients :
        /\ a # b
        /\ LostUpdateRun(a, b)
        /\ resp[a]["success"] = TRUE
        /\ resp[b]["success"] = TRUE
        /\ Len(initRules) = 1
        /\ Last(resp[a]["rules"]) # Last(resp[b]["rules"])
        /\ Last(resp[a]["rules"]) \notin Range(remoteRules)

HasPickup == "maxCapacityForPickup" \in DOMAIN norm_rule

\* C4: a fetched maxCapacityForPickup that is absent, 0 or negative is replaced
\* by the rule's maxCapacity; one that is >= 1 is kept.
C4_PickupDefaultsToMaxCapacity ==
    norm_pc \in {"once", "twice"} =>
        /\ ~HasPickup => norm_once["maxCapacityForPickup"] = norm_rule["maxCapacity"]
        /\ (HasPickup /\ norm_rule["maxCapacityForPickup"].v <= 0)
              => norm_once["maxCapacityForPickup"] = norm_rule["maxCapacity"]
        /\ (HasPickup /\ norm_rule["maxCapacityForPickup"].v >= 1)
              => norm_once["maxCapacityForPickup"] = norm_rule["maxCapacityForPickup"]

C4_Witness ==
    /\ norm_pc = "once"
    /\ HasPickup
    /\ norm_rule["maxCapacityForPickup"] = PyInt(0)
    /\ norm_rule["maxCapacity"] = PyInt(5)
    /\ norm_once["maxCapacityForPickup"] = PyInt(5)

\* C5: every rule of every PUT payload has a numeric maxCapacityForPickup >= 1.
C5_PickupAtLeastOne ==
    \A c \in Clients : pc[c] = "fetched" =>
        \A r \in Range(PayloadRules(c)) :
            /\ r["maxCapacityForPickup"].t = "int"
            /\ r["maxCapacityForPickup"].v >= 1

\* positions of the fetched startTimes entries that are objects with a present, truthy id
ValidPositions(st) ==
    {i \in 1..Len(st) : /\ st[i].t = "dict"
                        /\ "id" \in DOMAIN st[i].v
                        /\ st[i].v["id"] \notin {Null, PyInt(0), PyStr(""), PyBool(FALSE)}}

\* the k-th valid position, in list order
NthValid(st, k) == CHOOSE i \in ValidPositions(st) : Cardinality({j \in ValidPositions(st) : j <= i}) = k

FetchedTimesUsable ==
    /\ "startTimes" \in DOMAIN norm_rule
    /\ norm_rule["startTimes"].t = "list"
    /\ ValidPositions(norm_rule["startTimes"].v) # {}

\* C6: under DATE_AND_TIME, a rule without a usable startTimes list (missing, null,
\* not a list, empty, or without any valid id) is cleaned to allStartTimes = true and
\* no startTimes key; otherwise to allStartTimes = false and the {id}-only objects of
\* exactly the valid entries, in their original order.
C6_StartTimesReducedToIds ==
    (norm_pc \in {"once", "twice"} /\ norm_bt = DATE_AND_TIME) =>
        IF FetchedTimesUsable
        THEN LET st == norm_rule["startTimes"].v
                 out == norm_once["startTimes"].v
             IN  /\ norm_once["allStartTimes"] = PyBool(FALSE)
                 /\ norm_once["startTimes"].t = "list"
                 /\ Len(out) = Cardinality(ValidPositions(st))
                 /\ \A k \in 1..Len(out) :
                        /\ out[k].t = "dict"
                        /\ DOMAIN out[k].v = {"id"}
                        /\ out[k].v["id"] = st[NthValid(st, k)].v["id"]
        ELSE /\ norm_once["allStartTimes"] = PyBool(TRUE)
             /\ "startTimes" \notin DOMAIN norm_once

C6_Witness ==
    /\ norm_pc = "once"
    /\ norm_bt = DATE_AND_TIME
    /\ "startTimes" \in DOMAIN norm_rule
    /\ norm_rule["startTimes"] = PyList(<<PyDict([id |-> PyInt(0)]),
                                          PyDict([id |-> PyInt(501), hour |-> PyInt(9)])>>)
    /\ norm_once["startTimes"] = PyList(<<PyDict([id |-> PyInt(501)])>>)
    /\ norm_once["allStartTimes"] = PyBool(FALSE)

\* C7: cleaning is idempotent: a cleaned rule can be cleaned again, and the
\* result is the same rule.
C7_NormalizeIdempotent ==
    /\ norm_pc = "once" => ~normalize_raises(norm_once)
    /\ norm_pc = "twice" => norm_twice = norm_once

\* C8: under DATE_AND_TIME with a non-empty start_time_ids, the new rule has
\* allStartTimes = false and one {id}-only start time per supplied id, in order.
C8_NewRuleExplicitTimes ==
    \A c \in Clients :
        (pc[c] = "fetched" /\ FetchedType(c) = DATE_AND_TIME /\ Len(SuppliedIds(c)) > 0) =>
            /\ NewRuleOf(c)["allStartTimes"] = PyBool(FALSE)
            /\ NewRuleOf(c)["startTimes"].t = "list"
            /\ Len(NewRuleOf(c)["startTimes"].v) = Len(SuppliedIds(c))
            /\ \A i \in 1..Len(SuppliedIds(c)) :
                   /\ DOMAIN NewRuleOf(c)["startTimes"].v[i].v = {"id"}
                   /\ NewRuleOf(c)["startTimes"].v[i].v["id"] = SuppliedIds(c)[i]

C8_Witness ==
    \E c \in Clients :
        /\ pc[c] = "fetched"
        /\ FetchedType(c) = DATE_AND_TIME
        /\ SuppliedIds(c) = <<PyInt(501), PyInt(502)>>
        /\ NewRuleOf(c)["allStartTimes"] = PyBool(FALSE)
        /\ NewRuleOf(c)["startTimes"] =
              PyList(<<PyDict([id |-> PyInt(501)]), PyDict([id |-> PyInt(502)])>>)

\* C9 as stated: outside (DATE_AND_TIME with supplied ids) the new rule is
\* marked allStartTimes = true and has no startTimes key.
C9_OtherwiseAllStartTimesTrue ==
    \A c \in Clients :
        (pc[c] = "fetched" /\ ~(FetchedType(c) = DATE_AND_TIME /\ Len(SuppliedIds(c)) > 0)) =>
            /\ "allStartTimes" \in DOMAIN NewRuleOf(c)
            /\ NewRuleOf(c)["allStartTimes"] = PyBool(TRUE)
            /\ "startTimes" \notin DOMAIN NewRuleOf(c)

\* C9 amended: under DATE_AND_TIME with an empty id list the new rule is marked
\* allStartTimes = true and has no startTimes key; under any other fetched
\* booking type it has neither an allStartTimes nor a startTimes key.
C9_Amended ==
    \A c \in Clients : pc[c] = "fetched" =>
        /\ (FetchedType(c) = DATE_AND_TIME /\ Len(SuppliedIds(c)) = 0) =>
              /\ "allStartTimes" \in DOMAIN NewRuleOf(c)
              /\ NewRuleOf(c)["allStartTimes"] = PyBool(TRUE)
              /\ "startTimes" \notin DOMAIN NewRuleOf(c)
        /\ FetchedType(c) # DATE_AND_TIME =>
              /\ "allStartTimes" \notin DOMAIN NewRuleOf(c)
              /\ "startTimes" \notin DOMAIN NewRuleOf(c)

C9_Witness ==
    \E a, b \in Clients :
        /\ pc[a] = "fetched"
        /\ "bookingType" \in DOMAIN existing[a]
        /\ FetchedType(a) = DATE_ONLY
        /\ Len(SuppliedIds(a)) > 0
        /\ DOMAIN NewRuleOf(a) = {"recurrenceRule", "maxCapacity", "maxCapacityForPickup",
                                  "minTotalPax", "guidedLanguages"}
        /\ pc[b] = "fetched"
        /\ Len(SuppliedIds(b)) = 0
        /\ DOMAIN NewRuleOf(b) = DOMAIN NewRuleOf(a)

SameButCallerMode(a, b) ==
    /\ data[a]["date"] = data[b]["date"]
    /\ data[a]["start_time_ids"] = data[b]["start_time_ids"]
    /\ ("capacity" \in DOMAIN data[a]) = ("capacity" \in DOMAIN data[b])
    /\ ("capacity" \in DOMAIN data[a] => data[a]["capacity"] = data[b]["capacity"])

\* C10: two requests that fetched the same component and differ at most in
\* booking_type and all_start_times build the same PUT payload; when the fetched
\* component has no bookingType the payload is built as for DATE_ONLY (no rule
\* carries allStartTimes or startTimes), whatever the caller sent.
C10_CallerBookingTypeIgnored ==
    /\ \A a, b \in Clients :
          (pc[a] = "fetched" /\ pc[b] = "fetched" /\ existing[a] = existing[b]
             /\ SameButCallerMode(a, b)) => put_payload[a] = put_payload[b]
    /\ \A c \in Clients :
          (pc[c] = "fetched" /\ "bookingType" \notin DOMAIN existing[c]) =>
              \A r \in Range(PayloadRules(c)) :
                  DOMAIN r \cap {"allStartTimes", "startTimes"} = {}

C10_Witness ==
    \E a, b \in Clients :
        /\ pc[a] = "fetched"
        /\ pc[b] = "fetched"
        /\ existing[a] = existing[b]
        /\ FetchedType(a) = DATE_AND_TIME
        /\ Len(existing[a]["availabilityRules"]) > 0
        /\ SameButCallerMode(a, b)
        /\ Len(SuppliedIds(a)) > 0
        /\ data[a]["booking_type"] = DATE_ONLY
        /\ data[b]["booking_type"] = DATE_AND_TIME
        /\ data[a]["all_start_times"] # data[b]["all_start_times"]
        /\ put_payload[a] = put_payload[b]

GetsOf(c) == {i \in 1..Len(log) : log[i].op = "GET" /\ log[i].c = c}

FailedPuts(c) == {i \in PutsOf(c) : log[i].status # 200}

\* C11: a request whose PUT answered non-200 has made exactly its GET and that
\* PUT, has responded success=false with error '<status>: <body>' of the PUT, and
\* the step that serves the failed PUT leaves the remote collection as it was.
C11_FailedPutKeepsRemote ==
    /\ [](\A c \in Clients : \A i \in FailedPuts(c) :
             /\ pc[c] = "done"
             /\ resp[c]["success"] = FALSE
             /\ resp[c]["error"] = <<log[i].status, ": ", "upstream error">>
             /\ Cardinality(GetsOf(c)) = 1
             /\ PutsOf(c) = {i}
             /\ \A j \in GetsOf(c) : j < i /\ log[j].status = 200)
    /\ [][\A c \in Clients :
             (FailedPuts(c) = {} /\ FailedPuts(c)' # {}) => remoteRules' = remoteRules]_vars

C11_Witness ==
    \E c \in Clients :
        /\ FailedPuts(c) # {}
        /\ resp[c]["error"][1] = 404
        /\ resp[c]["success"] = FALSE
        /\ Len(initRules) = 2
        /\ remoteRules = initRules

\* C12: a request makes at most one GET and at most one PUT, its PUT comes after
\* its GET answered 200, and it has responded exactly when its last upstream call
\* has been served: after a failed GET, a raising clean-up, or the PUT.
C12_AtMostOneGetOnePut ==
    \A c \in Clients :
        /\ Cardinality(GetsOf(c)) <= 1
        /\ Cardinality(PutsOf(c)) <= 1
        /\ \A j \in PutsOf(c) : \E i \in GetsOf(c) : i < j /\ log[i].status = 200
        /\ (pc[c] = "idle") = (GetsOf(c) = {})
        /\ (pc[c] = "done") = (resp[c] # EmptyDict)
        /\ (FailedGets(c) # {} \/ PutsOf(c) # {}) => pc[c] = "done"
        /\ pc[c] = "fetched" => (GetsOf(c) # {} /\ PutsOf(c) = {} /\ FailedGets(c) = {})

C12_Witness ==
    \A c \in Clients :
        /\ pc[c] = "done"
        /\ Cardinality(GetsOf(c)) = 1
        /\ Cardinality(PutsOf(c)) = 1
        /\ Len(log) = 4

RecognizedKeys ==
    {"recurrenceRule", "maxCapacity", "maxCapacityForPickup", "minTotalPax",
     "guidedLanguages", "id", "allStartTimes", "startTimes"}

FetchedRules(c) == existing[c]["availabilityRules"]

\* C13: the i-th rule of a PUT payload, cleaned from the i-th fetched rule, has
\* recognized keys only, has an id exactly when the fetched rule has one (the same
\* value), has start times with id as their only key, and under a fetched type
\* other than DATE_AND_TIME has neither startTimes nor allStartTimes.
C13_OnlyRecognizedFields ==
    \A c \in Clients : pc[c] = "fetched" =>
        \A i \in 1..Len(FetchedRules(c)) :
            /\ DOMAIN PayloadRules(c)[i] \subseteq RecognizedKeys
            /\ ("id" \in DOMAIN PayloadRules(c)[i]) = ("id" \in DOMAIN FetchedRules(c)[i])
            /\ "id" \in DOMAIN FetchedRules(c)[i]
                  => PayloadRules(c)[i]["id"] = FetchedRules(c)[i]["id"]
            /\ "startTimes" \in DOMAIN PayloadRules(c)[i]
                  => \A st \in Range(PayloadRules(c)[i]["startTimes"].v) :
                         st.t = "dict" /\ DOMAIN st.v = {"id"}
            /\ FetchedType(c) # DATE_AND_TIME
                  => DOMAIN PayloadRules(c)[i] \cap {"startTimes", "allStartTimes"} = {}

C13_Witness ==
    \E c \in Clients :
        /\ pc[c] = "fetched"
        /\ FetchedType(c) = DATE_AND_TIME
        /\ Len(FetchedRules(c)) = 2
        /\ "externalId" \in DOMAIN FetchedRules(c)[1]
        /\ FetchedRules(c)[1]["id"] = PyInt(77)
        /\ PayloadRules(c)[1]["id"] = PyInt(77)
        /\ "externalId" \notin DOMAIN PayloadRules(c)[1]
        /\ PayloadRules(c)[1]["startTimes"] = PyList(<<PyDict([id |-> PyInt(501)])>>)
        /\ "id" \notin DOMAIN FetchedRules(c)[2]
        /\ "id" \notin DOMAIN PayloadRules(c)[2]

\* C14: in a PUT payload a rule has a startTimes key only together with
\* allStartTimes = false and a non-empty list; so no rule has both
\* allStartTimes = true and startTimes.
C14_NeverBothFlagAndTimes ==
    \A c \in Clients : pc[c] = "fetched" =>
        \A r \in Range(PayloadRules(c)) :
            "startTimes" \in DOMAIN r =>
                /\ "allStartTimes" \in DOMAIN r
                /\ r["allStartTimes"] = PyBool(FALSE)
                /\ r["startTimes"].t = "list"
                /\ Len(r["startTimes"].v) > 0

C14_Witness ==
    \E c \in Clients :
        /\ pc[c] = "fetched"
        /\ Len(PayloadRules(c)) = 3
        /\ FetchedType(c) = DATE_AND_TIME
        /\ "startTimes" \in DOMAIN FetchedRules(c)[1]
        /\ "startTimes" \notin DOMAIN PayloadRules(c)[1]
        /\ PayloadRules(c)[1]["allStartTimes"] = PyBool(TRUE)
        /\ PayloadRules(c)[2]["allStartTimes"] = PyBool(FALSE)
        /\ "startTimes" \in DOMAIN PayloadRules(c)[2]
        /\ Len(PayloadRules(c)[2]["startTimes"].v) = 1
        /\ NewRuleOf(c)["allStartTimes"] = PyBool(FALSE)
        /\ "startTimes" \in DOMAIN NewRuleOf(c)
        /\ Len(NewRuleOf(c)["startTimes"].v) = 2

\* the causes the claim names: a missing recurrenceRule or maxCapacity, or a
\* maxCapacityForPickup that is not a number
RuleRaises(r) ==
    \/ "recurrenceRule" \notin DOMAIN r
    \/ "maxCapacity" \notin DOMAIN r
    \/ ("maxCapacityForPickup" \in DOMAIN r /\ r["maxCapacityForPickup"].t \notin {"int", "bool"})

\* C15: while the remote collection holds a rule whose clean-up raises, no request
\* issues a PUT, the collection stays as it is, and every request whose GET
\* answered 200 has responded success=false with HTTP 500.
C15_RaisingRuleBlocksWrite ==
    (\E r \in Range(initRules) : RuleRaises(r)) =>
        /\ remoteRules = initRules
        /\ \A c \in Clients :
              /\ PutsOf(c) = {}
              /\ put_payload[c] = EmptyDict
              /\ (GetsOf(c) # {} /\ FailedGets(c) = {}) =>
                    /\ pc[c] = "done"
                    /\ resp[c]["success"] = FALSE
                    /\ resp[c]["http"] = 500

C15_Witness ==
    \E c \in Clients :
        /\ Len(initRules) = 2
        /\ ~RuleRaises(initRules[1])
        /\ "maxCapacityForPickup" \in DOMAIN initRules[2]
        /\ initRules[2]["maxCapacityForPickup"] = Null
        /\ GetsOf(c) # {}
        /\ FailedGets(c) = {}
        /\ resp[c]["http"] = 500
        /\ remoteRules = initRules

\* the log of two requests served one after the other, every call answered 200
SerialRun(a, b) ==
    log = <<[op |-> "GET", c |-> a, status |-> 200], [op |-> "PUT", c |-> a, status |-> 200],
            [op |-> "GET", c |-> b, status |-> 200], [op |-> "PUT", c |-> b, status |-> 200]>>

SingleRun(a) ==
    log = <<[op |-> "GET", c |-> a, status |-> 200], [op |-> "PUT", c |-> a, status |-> 200]>>

\* the stored rule r is the fetched rule f: same window, capacity and id
SameRule(f, r) ==
    /\ r["recurrenceRule"] = f["recurrenceRule"]
    /\ r["maxCapacity"] = f["maxCapacity"]
    /\ ("id" \in DOMAIN r) = ("id" \in DOMAIN f)
    /\ "id" \in DOMAIN f => r["id"] = f["id"]

\* the stored rule r is the rule n a request added: same window and capacity, no id
AddedRule(n, r) ==
    /\ r["recurrenceRule"] = n["recurrenceRule"]
    /\ r["maxCapacity"] = n["maxCapacity"]
    /\ "id" \notin DOMAIN n
    /\ "id" \notin DOMAIN r

OriginalsKept == \A i \in 1..Len(initRules) : SameRule(initRules[i], remoteRules[i])

\* C16: after k = 1 or 2 successful requests served one after the other the remote
\* holds N+k rules: the N original rules in their order with their ids, then the
\* new rules in request order, each without an id.
C16_SerialAppends ==
    /\ \A a \in Clients : SingleRun(a) =>
          /\ Len(remoteRules) = Len(initRules) + 1
          /\ OriginalsKept
          /\ AddedRule(Last(resp[a]["rules"]), remoteRules[Len(initRules) + 1])
    /\ \A a, b \in Clients : (a # b /\ SerialRun(a, b)) =>
          /\ Len(remoteRules) = Len(initRules) + 2
          /\ OriginalsKept
          /\ AddedRule(Last(resp[a]["rules"]), remoteRules[Len(initRules) + 1])
          /\ AddedRule(Last(resp[b]["rules"]), remoteRules[Len(initRules) + 2])

C16_Witness ==
    \E a, b \in Clients :
        /\ a # b
        /\ SerialRun(a, b)
        /\ Len(initRules) = 2
        /\ "id" \notin DOMAIN initRules[1]
        /\ "id" \in DOMAIN initRules[2]
        /\ initRules[2]["id"] = PyInt(77)
        /\ Len(remoteRules) = 4
        /\ remoteRules[2]["id"] = PyInt(77)
        /\ remoteRules[3]["recurrenceRule"] = remoteRules[4]["recurrenceRule"]
        /\ remoteRules[3]["maxCapacity"] = PyInt(0)
        /\ remoteRules[4]["maxCapacity"] = PyInt(12)

====
